---- MODULE Spec2Model ----
(***************************************************************************)
(* A model of the `intra` crate: Roman numerals (roman.rs), the word       *)
(* dictionary (language.rs) and the assistant Ford (assistant.rs).         *)
(*                                                                         *)
(* Text is a sequence of one-character strings.  Positions are 1-based; a  *)
(* position i names the place before the i-th character.                   *)
(***************************************************************************)
EXTENDS Integers, Sequences, FiniteSets, TLC

(***************************************************************************)
(* Character classes used by the regular expressions of the crate.         *)
(***************************************************************************)
Lower == {"a", "b", "c", "d", "e", "f", "g", "h", "i", "j", "k", "l", "m",
          "n", "o", "p", "q", "r", "s", "t", "u", "v", "w", "x", "y", "z"}

Upper == {"A", "B", "C", "D", "E", "F", "G", "H", "I", "J", "K", "L", "M",
          "N", "O", "P", "Q", "R", "S", "T", "U", "V", "W", "X", "Y", "Z"}

Digit == {"0", "1", "2", "3", "4", "5", "6", "7", "8", "9"}

\* \s of the regex crate and char::is_whitespace, within the characters used.
White == {" ", "\t"}

RomanDigits == {"I", "V", "X", "L", "C", "D", "M"}

(***************************************************************************)
(* Regular expressions as syntax trees, matched the way the regex crate    *)
(* does: the leftmost match, and among the matches at one start the one a  *)
(* backtracking matcher finds first (greedy repetition, alternatives in    *)
(* order).                                                                 *)
(***************************************************************************)
Cls(S) == [t |-> "cls", s |-> S]

Lit(ch) == Cls({ch})

\* (?i:x) for an ASCII letter given in both cases.
LitI(lo, up) == Cls({lo, up})

Dot == [t |-> "dot"]

Bol == [t |-> "bol"]

Eol == [t |-> "eol"]

Cat(rs) == [t |-> "cat", rs |-> rs]

Alt(rs) == [t |-> "alt", rs |-> rs]

\* r{lo,hi}, greedy; hi = -1 is no upper limit.
Rep(r, lo, hi) == [t |-> "rep", r |-> r, lo |-> lo, hi |-> hi]

Star(r) == Rep(r, 0, -1)

Plus(r) == Rep(r, 1, -1)

Opt(r) == Rep(r, 0, 1)

\* Capture group number n.
Cap(n, r) == [t |-> "cap", n |-> n, r |-> r]

NoCaps == [n \in 1..4 |-> <<0, 0>>]

RECURSIVE M(_, _, _, _)
RECURSIVE MCat(_, _, _, _)
RECURSIVE MCatAll(_, _, _)
RECURSIVE MAlt(_, _, _, _)
RECURSIVE MRep(_, _, _, _, _, _, _)
RECURSIVE MRepAll(_, _, _, _, _, _)

\* All ways for r to match s from position i, in the matcher's order of
\* preference: a sequence of [e |-> position after the match, c |-> captures].
M(r, s, i, c) ==
    CASE r.t = "cls" ->
            IF i <= Len(s) /\ s[i] \in r.s THEN <<[e |-> i + 1, c |-> c]>> ELSE <<>>
      [] r.t = "dot" ->
            IF i <= Len(s) /\ s[i] # "\n" THEN <<[e |-> i + 1, c |-> c]>> ELSE <<>>
      [] r.t = "bol" -> IF i = 1 THEN <<[e |-> i, c |-> c]>> ELSE <<>>
      [] r.t = "eol" -> IF i = Len(s) + 1 THEN <<[e |-> i, c |-> c]>> ELSE <<>>
      [] r.t = "cap" ->
            LET xs == M(r.r, s, i, c)
            IN  [k \in 1..Len(xs) |->
                    [e |-> xs[k].e, c |-> [xs[k].c EXCEPT ![r.n] = <<i, xs[k].e>>]]]
      [] r.t = "cat" -> MCat(r.rs, s, i, c)
      [] r.t = "alt" -> MAlt(r.rs, s, i, c)
      [] r.t = "rep" -> MRep(r.r, r.lo, r.hi, s, i, c, 0)

\* The matches of rs one after the other: those of the first half of rs,
\* each continued by the second half (rs is halved to keep the nesting of the
\* evaluation shallow; the order is that of the patterns from left to right).
MCat(rs, s, i, c) ==
    IF rs = <<>> THEN <<[e |-> i, c |-> c]>>
    ELSE IF Len(rs) = 1 THEN M(rs[1], s, i, c)
    ELSE LET h == Len(rs) \div 2
         IN  MCatAll(SubSeq(rs, h + 1, Len(rs)), s, MCat(SubSeq(rs, 1, h), s, i, c))

\* The matches of rs from each of xs, in the order of xs (xs is halved to
\* keep the nesting of the evaluation shallow).
MCatAll(rs, s, xs) ==
    IF xs = <<>> THEN <<>>
    ELSE IF Len(xs) = 1 THEN MCat(rs, s, xs[1].e, xs[1].c)
    ELSE LET h == Len(xs) \div 2
         IN  MCatAll(rs, s, SubSeq(xs, 1, h))
                 \o MCatAll(rs, s, SubSeq(xs, h + 1, Len(xs)))

MAlt(rs, s, i, c) ==
    IF rs = <<>> THEN <<>>
    ELSE M(Head(rs), s, i, c) \o MAlt(Tail(rs), s, i, c)

\* How many characters from position i on are matched by the one-character
\* pattern r (a class or the dot).
Run(r, s, i) ==
    CHOOSE k \in 0..(Len(s) + 1 - i) :
        /\ \A j \in 0..(k - 1) : M(r, s, i + j, NoCaps) # <<>>
        /\ k = Len(s) + 1 - i \/ M(r, s, i + k, NoCaps) = <<>>

\* n repetitions are done; greedy, so one more repetition is tried first.  A
\* repeated one-character pattern takes the longest run first, then gives
\* back one character at a time.
MRep(r, lo, hi, s, i, c, n) ==
    IF r.t \in {"cls", "dot"}
    THEN LET run == Run(r, s, i)
             top == IF hi = -1 \/ run < hi - n THEN run ELSE hi - n
             low == IF lo > n THEN lo - n ELSE 0
         IN  [k \in 1..(top - low + 1) |-> [e |-> i + top + 1 - k, c |-> c]]
    ELSE LET more == IF hi = -1 \/ n < hi
                     THEN MRepAll(r, lo, hi, s, M(r, s, i, c), n + 1)
                     ELSE <<>>
             here == IF n >= lo THEN <<[e |-> i, c |-> c]>> ELSE <<>>
         IN  more \o here

MRepAll(r, lo, hi, s, xs, n) ==
    IF xs = <<>> THEN <<>>
    ELSE IF Len(xs) = 1 THEN MRep(r, lo, hi, s, xs[1].e, xs[1].c, n)
    ELSE LET h == Len(xs) \div 2
         IN  MRepAll(r, lo, hi, s, SubSeq(xs, 1, h), n)
                 \o MRepAll(r, lo, hi, s, SubSeq(xs, h + 1, Len(xs)), n)

\* Regex::captures: the match of r in s that starts first.
Captures(r, s) ==
    LET starts == {i \in 1..(Len(s) + 1) : M(r, s, i, NoCaps) # <<>>}
    IN  IF starts = {} THEN [ok |-> FALSE]
        ELSE LET b == CHOOSE i \in starts : \A j \in starts : i <= j
                 x == M(r, s, b, NoCaps)[1]
             IN  [ok |-> TRUE, b |-> b, e |-> x.e, c |-> x.c]

\* Regex::is_match
IsMatch(r, s) == Captures(r, s).ok

\* captures.get(n).unwrap().as_str()
Group(m, s, n) == SubSeq(s, m.c[n][1], m.c[n][2] - 1)

(***************************************************************************)
(* roman.rs                                                                *)
(***************************************************************************)
\* "^M{0,3}(C[MD]|D?C{0,3})(X[CL]|L?X{0,3})(I[XV]|V?I{0,3})$"
ROMAN_REGEX ==
    Cat(<<Bol,
          Rep(Lit("M"), 0, 3),
          Alt(<<Cat(<<Lit("C"), Cls({"M", "D"})>>),
                Cat(<<Opt(Lit("D")), Rep(Lit("C"), 0, 3)>>)>>),
          Alt(<<Cat(<<Lit("X"), Cls({"C", "L"})>>),
                Cat(<<Opt(Lit("L")), Rep(Lit("X"), 0, 3)>>)>>),
          Alt(<<Cat(<<Lit("I"), Cls({"X", "V"})>>),
                Cat(<<Opt(Lit("V")), Rep(Lit("I"), 0, 3)>>)>>),
          Eol>>)

\* The pattern without its closing $: a canonical numeral at the start of the
\* text is enough.
is_valid_unanchored(value) ==
    IsMatch(Cat(SubSeq(ROMAN_REGEX.rs, 1, Len(ROMAN_REGEX.rs) - 1)), value)

is_valid(value) == IsMatch(ROMAN_REGEX, value)

digit_value(digit) ==
    CASE digit = "I" -> 1
      [] digit = "V" -> 5
      [] digit = "X" -> 10
      [] digit = "L" -> 50
      [] digit = "C" -> 100
      [] digit = "D" -> 500
      [] digit = "M" -> 1000
      [] OTHER -> 0

InvalidRomanNumeral == [ok |-> FALSE, err |-> "InvalidRomanNumeral"]

\* impl TryFrom<String> for Roman
try_from_string(value) ==
    IF value = <<>> THEN InvalidRomanNumeral
    ELSE IF is_valid(value) THEN [ok |-> TRUE, value |-> value]
    ELSE InvalidRomanNumeral

\* impl TryFrom<&str> for Roman
try_from(value) ==
    IF value = <<>> THEN InvalidRomanNumeral
    ELSE try_from_string(value)

RECURSIVE u32_scan(_, _, _, _)
\* The loop of From<&Roman> for u32 from the k-th character on, and the flush
\* of the pending digit after it.  previous = "None" is Option::None.
u32_scan(s, k, acc, previous) ==
    IF k > Len(s)
    THEN IF previous # "None" THEN acc + digit_value(previous) ELSE acc
    ELSE LET current_char == s[k]
             last_digit == digit_value(previous)
             current_digit == digit_value(current_char)
         IN  IF previous # "None"
             THEN IF previous = current_char
                  THEN u32_scan(s, k + 1, acc + current_digit + last_digit, "None")
                  ELSE IF last_digit < current_digit
                  THEN u32_scan(s, k + 1, acc + current_digit - last_digit, "None")
                  ELSE u32_scan(s, k + 1, acc + last_digit, current_char)
             ELSE IF current_char \in {"I", "X", "C"}
                  THEN u32_scan(s, k + 1, acc, current_char)
                  ELSE u32_scan(s, k + 1, acc + digit_value(current_char), "None")

\* The sum of the digits, with no subtractive pairs.
u32_additive(roman) ==
    LET Count(d) == Cardinality({k \in DOMAIN roman.value : roman.value[k] = d})
    IN  Count("I") + 5 * Count("V") + 10 * Count("X") + 50 * Count("L")
            + 100 * Count("C") + 500 * Count("D") + 1000 * Count("M")

\* impl From<&Roman> for u32
u32_from(roman) == u32_scan(roman.value, 1, 0, "None")

(***************************************************************************)
(* The standard Roman numerals, for reference.                             *)
(***************************************************************************)
StdTable ==
    << <<1000, <<"M">> >>, <<900, <<"C", "M">> >>, <<500, <<"D">> >>,
       <<400, <<"C", "D">> >>, <<100, <<"C">> >>, <<90, <<"X", "C">> >>,
       <<50, <<"L">> >>, <<40, <<"X", "L">> >>, <<10, <<"X">> >>,
       <<9, <<"I", "X">> >>, <<5, <<"V">> >>, <<4, <<"I", "V">> >>,
       <<1, <<"I">> >> >>

RECURSIVE StdFrom(_, _)
StdFrom(n, k) ==
    IF n = 0 THEN <<>>
    ELSE IF n >= StdTable[k][1] THEN StdTable[k][2] \o StdFrom(n - StdTable[k][1], k)
    ELSE StdFrom(n, k + 1)

\* The standard numeral of n, n in 1..3999.
Standard(n) == StdFrom(n, 1)

\* One group of the canonical grammar: CM|CD|D?C{0,3} for (C, D, M), and so on.
GroupOf(one, five, ten) ==
    {<<one, ten>>, <<one, five>>}
        \cup {f \o r : f \in {<<>>, <<five>>},
                       r \in {<<>>, <<one>>, <<one, one>>, <<one, one, one>>}}

\* s is a string of the canonical grammar
\* M{0,3}(CM|CD|D?C{0,3})(XC|XL|L?X{0,3})(IX|IV|V?I{0,3}).
InGrammar(s) ==
    \E i, j, k \in 0..Len(s) :
        /\ i <= j /\ j <= k
        /\ SubSeq(s, 1, i) \in {<<>>, <<"M">>, <<"M", "M">>, <<"M", "M", "M">>}
        /\ SubSeq(s, i + 1, j) \in GroupOf("C", "D", "M")
        /\ SubSeq(s, j + 1, k) \in GroupOf("X", "L", "C")
        /\ SubSeq(s, k + 1, Len(s)) \in GroupOf("I", "V", "X")

RECURSIVE ClassicValue(_)
\* The value the classic system gives a string of Roman digits: a digit before
\* a larger one is subtracted, every other digit is added.
ClassicValue(s) ==
    IF s = <<>> THEN 0
    ELSE IF Len(s) >= 2 /\ digit_value(s[1]) < digit_value(s[2])
    THEN ClassicValue(Tail(s)) - digit_value(s[1])
    ELSE ClassicValue(Tail(s)) + digit_value(s[1])

\* s is the standard numeral of a number in 1..3999.
IsStandardNumeral(s) ==
    /\ \A k \in 1..Len(s) : s[k] \in RomanDigits
    /\ ClassicValue(s) \in 1..3999
    /\ Standard(ClassicValue(s)) = s

\* Longest text over the Roman digits tried besides the standard numerals.
MaxLen == 4

RECURSIVE TextsOfLen(_, _)
\* The sequences of n elements of A.
TextsOfLen(A, n) ==
    IF n = 0 THEN {<<>>} ELSE {<<a>> \o s : a \in A, s \in TextsOfLen(A, n - 1)}

RomanTexts == UNION {TextsOfLen(RomanDigits, n) : n \in 0..MaxLen}

(***************************************************************************)
(* rust_decimal::Decimal, as far as assistant.rs uses it: an unsigned      *)
(* 96-bit mantissa and a scale of 0 to 28 decimal places.  The mantissa is  *)
(* kept as its sequence of decimal digits, most significant first, without *)
(* leading zeros (zero is the empty sequence).                             *)
(***************************************************************************)
\* 2^96 - 1
MaxMantissa ==
    <<7, 9, 2, 2, 8, 1, 6, 2, 5, 1, 4, 2, 6, 4, 3, 3, 7, 5, 9, 3, 5, 4, 3, 9, 5, 0, 3, 3, 5>>

\* ds without its leading zeros.
Strip(ds) ==
    LET zeros == {k \in 0..Len(ds) : \A j \in 1..k : ds[j] = 0}
        z == CHOOSE k \in zeros : \A j \in zeros : j <= k
    IN  SubSeq(ds, z + 1, Len(ds))

\* a <= b for digit sequences of one length: a is below b at the first place
\* where they differ.
LexLe(a, b) ==
    \A k \in 1..Len(a) : (\A j \in 1..(k - 1) : a[j] = b[j]) => a[k] <= b[k]

BigLe(a, b) == Len(a) < Len(b) \/ (Len(a) = Len(b) /\ LexLe(a, b))

Fits(ds) == BigLe(ds, MaxMantissa)

RECURSIVE NatDigits(_)
NatDigits(n) == IF n = 0 THEN <<>> ELSE Append(NatDigits(n \div 10), n % 10)

\* The digits of ds from the last to the first.
Backwards(ds) == [k \in 1..Len(ds) |-> ds[Len(ds) + 1 - k]]

RECURSIVE MulFrom(_, _, _)
\* rs holds digits from the lowest place up: rs * c + carry as Len(rs) digits,
\* lowest place first, and the carry out of them; the low half of rs first,
\* its carry into the high half.
MulFrom(rs, c, carry) ==
    IF rs = <<>> THEN [ds |-> <<>>, carry |-> carry]
    ELSE IF Len(rs) = 1
    THEN LET t == rs[1] * c + carry
         IN  [ds |-> <<t % 10>>, carry |-> t \div 10]
    ELSE LET h == Len(rs) \div 2
             lo == MulFrom(SubSeq(rs, 1, h), c, carry)
             hi == MulFrom(SubSeq(rs, h + 1, Len(rs)), c, lo.carry)
         IN  [ds |-> lo.ds \o hi.ds, carry |-> hi.carry]

\* ds times the small number c.
MulSmall(ds, c) ==
    LET m == MulFrom(Backwards(ds), c, 0)
    IN  Strip(NatDigits(m.carry) \o Backwards(m.ds))

RECURSIVE DivFrom(_, _, _)
\* Long division of ds by c with rem carried in: Len(ds) digits of quotient
\* and the remainder; the high half of ds first, its remainder into the low
\* half.
DivFrom(ds, c, rem) ==
    IF ds = <<>> THEN [q |-> <<>>, r |-> rem]
    ELSE IF Len(ds) = 1
    THEN LET cur == rem * 10 + ds[1]
         IN  [q |-> <<cur \div c>>, r |-> cur % c]
    ELSE LET h == Len(ds) \div 2
             hi == DivFrom(SubSeq(ds, 1, h), c, rem)
             lo == DivFrom(SubSeq(ds, h + 1, Len(ds)), c, hi.r)
         IN  [q |-> hi.q \o lo.q, r |-> lo.r]

\* Quotient and remainder of ds by the small number c > 0.
DivSmall(ds, c) ==
    LET d == DivFrom(ds, c, 0)
    IN  [q |-> Strip(d.q), r |-> d.r]

RECURSIVE AddOne(_)
AddOne(ds) ==
    IF ds = <<>> THEN <<1>>
    ELSE IF ds[Len(ds)] < 9 THEN [ds EXCEPT ![Len(ds)] = @ + 1]
    ELSE Append(AddOne(SubSeq(ds, 1, Len(ds) - 1)), 0)

IsOdd(ds) == ds # <<>> /\ ds[Len(ds)] % 2 = 1

Dec(ds, scale) == [digits |-> ds, scale |-> scale]

\* Decimal::from(u32)
dec_from_u32(n) == Dec(NatDigits(n), 0)

\* Decimal::from_str_exact on a text matched by [0-9]+ : Err when the number
\* does not fit the 96-bit mantissa.
dec_from_str_exact(text) ==
    LET ds == Strip([k \in 1..Len(text) |-> CHOOSE d \in 0..9 : ToString(d) = text[k]])
    IN  IF Fits(ds) THEN [ok |-> TRUE, dec |-> Dec(ds, 0)] ELSE [ok |-> FALSE]

\* One more digit of the quotient q with remainder r, when the remainder is
\* not zero, the scale is below 28 and the mantissa still fits; else done.
DivStep(st, c) ==
    IF /\ st.r # 0
       /\ st.scale < 28
       /\ Fits(Append(st.q, 0))
       /\ Fits(Strip(Append(st.q, (st.r * 10) \div c)))
    THEN [q |-> Strip(Append(st.q, (st.r * 10) \div c)), r |-> (st.r * 10) % c,
          scale |-> st.scale + 1, done |-> FALSE]
    ELSE [st EXCEPT !.done = TRUE]

RECURSIVE DivSteps(_, _, _)
\* Up to m digits more: the first half of them, then the rest unless done.
DivSteps(st, c, m) ==
    IF m = 1 THEN DivStep(st, c)
    ELSE LET a == DivSteps(st, c, m \div 2)
         IN  IF a.done THEN a ELSE DivSteps(a, c, m - m \div 2)

\* Decimal division by a small number: digits are added to the quotient while
\* the remainder is not zero, the scale is below 28 and the mantissa still fits;
\* what is left is rounded half to even.
DivScale(q, r, c, scale) ==
    LET st == DivSteps([q |-> q, r |-> r, scale |-> scale, done |-> FALSE], c, 28)
    IN  IF st.r = 0 THEN Dec(st.q, st.scale)
        ELSE IF 2 * st.r > c \/ (2 * st.r = c /\ IsOdd(st.q))
        THEN Dec(AddOne(st.q), st.scale)
        ELSE Dec(st.q, st.scale)

\* impl Div for Decimal (price / count), count a u32: panics when count is 0.
dec_div(price, count) ==
    IF count = 0 THEN [ok |-> FALSE]
    ELSE LET d == DivSmall(price.digits, count)
         IN  [ok |-> TRUE, dec |-> DivScale(d.q, d.r, count, price.scale)]

RECURSIVE Rescale(_, _, _, _)
\* A product that does not fit 96 bits gives up decimal places, rounding half
\* to even on everything dropped; sticky: a dropped digit after `last` was not 0.
Rescale(ds, scale, last, sticky) ==
    IF Fits(ds)
    THEN LET up == last > 5 \/ (last = 5 /\ (sticky \/ IsOdd(ds)))
         IN  IF ~up THEN [ok |-> TRUE, dec |-> Dec(ds, scale)]
             ELSE IF Fits(AddOne(ds)) THEN [ok |-> TRUE, dec |-> Dec(AddOne(ds), scale)]
             ELSE IF scale = 0 THEN [ok |-> FALSE]
             ELSE Rescale(SubSeq(ds, 1, Len(ds) - 1), scale - 1, ds[Len(ds)],
                          sticky \/ last # 0)
    ELSE IF scale = 0 THEN [ok |-> FALSE]
    ELSE Rescale(SubSeq(ds, 1, Len(ds) - 1), scale - 1, ds[Len(ds)], sticky \/ last # 0)

\* impl Mul for Decimal (count * price), count a u32: panics on overflow.
dec_mul(count, price) ==
    IF count = 0 \/ price.digits = <<>> THEN [ok |-> TRUE, dec |-> Dec(<<>>, price.scale)]
    ELSE Rescale(MulSmall(price.digits, count), price.scale, 0, FALSE)

\* The number as it is, trailing zeros kept.
dec_keep_zeros(d) == d

RECURSIVE dec_normalize(_)
\* Decimal::normalize: strips the trailing zeros of the fraction.
dec_normalize(d) ==
    IF d.digits = <<>> THEN Dec(<<>>, 0)
    ELSE IF d.scale > 0 /\ d.digits[Len(d.digits)] = 0
    THEN dec_normalize(Dec(SubSeq(d.digits, 1, Len(d.digits) - 1), d.scale - 1))
    ELSE d

DigitChars(ds) == [k \in 1..Len(ds) |-> ToString(ds[k])]

RECURSIVE Zeros(_)
Zeros(n) == IF n <= 0 THEN <<>> ELSE <<0>> \o Zeros(n - 1)

\* impl Display for Decimal
dec_to_string(d) ==
    LET all == Zeros(d.scale + 1 - Len(d.digits)) \o d.digits
        int == SubSeq(all, 1, Len(all) - d.scale)
        frac == SubSeq(all, Len(all) - d.scale + 1, Len(all))
    IN  DigitChars(int) \o (IF d.scale > 0 THEN <<".">> \o DigitChars(frac) ELSE <<>>)

\* impl Display for u32
u32_to_string(n) == IF n = 0 THEN <<"0">> ELSE DigitChars(NatDigits(n))

(***************************************************************************)
(* error.rs: the values Ford::query and Language::translate return.        *)
(***************************************************************************)
\* Ok(None)
OkNone == [kind |-> "None", err |-> "", text |-> <<>>]

\* Ok(Some(text))
OkSome(text) == [kind |-> "Some", err |-> "", text |-> text]

\* Err(QueryError::e(payload)); InvalidRomanNumeral carries nothing.
Err(e, payload) == [kind |-> "Err", err |-> e, text |-> payload]

\* A panic (an unwrap of Err, an arithmetic overflow): the call never returns.
Panic(what) == [kind |-> "Panic", err |-> what, text |-> <<>>]

\* No call has been made yet.
NoCall == [kind |-> "NoCall", err |-> "", text |-> <<>>]

(***************************************************************************)
(* language.rs                                                             *)
(***************************************************************************)
\* Language::new: the empty map.
language_new == [w \in {} |-> "I"]

\* Language::contains
language_contains(map, word) == word \in DOMAIN map

\* Language::insert: HashMap::insert, which overwrites.
language_insert(map, word, digit) ==
    [w \in DOMAIN map \cup {word} |-> IF w = word THEN digit ELSE map[w]]

\* Language::known_digits
language_known_digits(map) == {map[w] : w \in DOMAIN map}

RECURSIVE Split(_, _)
\* str::split(char::is_whitespace): every whitespace character ends a word,
\* so two in a row, or one at either end, give an empty word.  k is the
\* length of the word being read.
Split(text, k) ==
    IF k = Len(text) THEN <<text>>
    ELSE IF text[k + 1] \in White
    THEN <<SubSeq(text, 1, k)>> \o Split(SubSeq(text, k + 2, Len(text)), 0)
    ELSE Split(text, k + 1)

\* The digits in the reverse of the word order.
Collect_reversed(map, words) ==
    LET unknown == {k \in DOMAIN words : words[k] \notin DOMAIN map}
    IN  IF unknown # {}
        THEN [ok |-> FALSE,
              error |-> Err("UnrecognizedWord",
                            words[CHOOSE k \in unknown : \A j \in unknown : k <= j])]
        ELSE [ok |-> TRUE,
              text |-> [k \in 1..Len(words) |-> map[words[Len(words) + 1 - k]]]]

\* The error of the last word without a translation.
Collect_last(map, words) ==
    LET unknown == {k \in DOMAIN words : words[k] \notin DOMAIN map}
    IN  IF unknown # {}
        THEN [ok |-> FALSE,
              error |-> Err("UnrecognizedWord",
                            words[CHOOSE k \in unknown : \A j \in unknown : k >= j])]
        ELSE [ok |-> TRUE, text |-> [k \in 1..Len(words) |-> map[words[k]]]]

RECURSIVE Collect(_, _)
\* .map(..).collect::<Result<String, _>>(): the digits in word order, or the
\* error of the first word without a translation.
Collect(map, words) ==
    IF words = <<>> THEN [ok |-> TRUE, text |-> <<>>]
    ELSE IF Head(words) \notin DOMAIN map
    THEN [ok |-> FALSE, error |-> Err("UnrecognizedWord", Head(words))]
    ELSE LET rest == Collect(map, Tail(words))
         IN  IF rest.ok THEN [ok |-> TRUE, text |-> <<map[Head(words)]>> \o rest.text]
             ELSE rest

\* The digits of the words that have a translation, taken as a numeral
\* without validation.
translate_unchecked(map, text) ==
    LET Known(w) == w \in DOMAIN map
        known == SelectSeq(Split(text, 0), Known)
    IN  [ok |-> TRUE,
         roman |-> [ok |-> TRUE, value |-> [k \in 1..Len(known) |-> map[known[k]]]]]

\* Language::translate
translate(map, text) ==
    LET collected == Collect(map, Split(text, 0))
    IN  IF ~collected.ok THEN collected
        ELSE LET roman == try_from_string(collected.text)
             IN  IF roman.ok THEN [ok |-> TRUE, roman |-> roman]
                 ELSE [ok |-> FALSE, error |-> Err("InvalidRomanNumeral", <<>>)]

(***************************************************************************)
(* assistant.rs                                                            *)
(***************************************************************************)
WS == Cls(White)

IS == Cat(<<LitI("i", "I"), LitI("s", "S")>>)

\* r"([a-z]+)\s+(?i:is)\s+([IVXLCDM])"
QUERY_SET_DIGIT ==
    Cat(<<Cap(1, Plus(Cls(Lower))), Plus(WS), IS, Plus(WS), Cap(2, Cls(RomanDigits))>>)

\* r"([a-z\s]*)\s+([A-Z].*)\s+(?i:is)\s+([0-9]+)\s+(?i:credits)"
QUERY_SET_ITEM ==
    Cat(<<Cap(1, Star(Cls(Lower \cup White))), Plus(WS),
          Cap(2, Cat(<<Cls(Upper), Star(Dot)>>)), Plus(WS), IS, Plus(WS),
          Cap(3, Plus(Cls(Digit))), Plus(WS),
          LitI("c", "C"), LitI("r", "R"), LitI("e", "E"), LitI("d", "D"),
          LitI("i", "I"), LitI("t", "T"), LitI("s", "S")>>)

\* r"(?i:how\s+much\s+is\s+)([a-z\s]*)\?"
QUERY_NUMERAL ==
    Cat(<<LitI("h", "H"), LitI("o", "O"), LitI("w", "W"), Plus(WS),
          LitI("m", "M"), LitI("u", "U"), LitI("c", "C"), LitI("h", "H"), Plus(WS),
          IS, Plus(WS),
          Cap(1, Star(Cls(Lower \cup White))), Lit("?")>>)

\* r"(?i:how\s+many\s+credits\s+is\s+)([a-z\s]*)\s+([A-Z].*)\s*\?"
QUERY_PRICE ==
    Cat(<<LitI("h", "H"), LitI("o", "O"), LitI("w", "W"), Plus(WS),
          LitI("m", "M"), LitI("a", "A"), LitI("n", "N"), LitI("y", "Y"), Plus(WS),
          LitI("c", "C"), LitI("r", "R"), LitI("e", "E"), LitI("d", "D"),
          LitI("i", "I"), LitI("t", "T"), LitI("s", "S"), Plus(WS),
          IS, Plus(WS),
          Cap(1, Star(Cls(Lower \cup White))), Plus(WS),
          Cap(2, Cat(<<Cls(Upper), Star(Dot)>>)), Star(WS), Lit("?")>>)

RECURSIVE TrimStart(_)
TrimStart(s) == IF s # <<>> /\ Head(s) \in White THEN TrimStart(Tail(s)) ELSE s

RECURSIVE TrimEnd(_)
TrimEnd(s) ==
    IF s # <<>> /\ s[Len(s)] \in White THEN TrimEnd(SubSeq(s, 1, Len(s) - 1)) ELSE s

\* str::trim
Trim(s) == TrimEnd(TrimStart(s))

\* language.rs: r"(?i:how\s+many\s+credits\s+is\s+)([a-z\s]*)\s+([A-Z].*)\?"
QUERY_PRICE_language ==
    Cat(<<LitI("h", "H"), LitI("o", "O"), LitI("w", "W"), Plus(WS),
          LitI("m", "M"), LitI("a", "A"), LitI("n", "N"), LitI("y", "Y"), Plus(WS),
          LitI("c", "C"), LitI("r", "R"), LitI("e", "E"), LitI("d", "D"),
          LitI("i", "I"), LitI("t", "T"), LitI("s", "S"), Plus(WS),
          IS, Plus(WS),
          Cap(1, Star(Cls(Lower \cup White))), Plus(WS),
          Cap(2, Cat(<<Cls(Upper), Star(Dot)>>)), Lit("?")>>)

\* Ok(decimal) of Result<Decimal, TranslationError>
OkDecimal(d) == [kind |-> "Decimal", dec |-> d]

\* The answer with the count in place of the price of the count.
language_query_count_only(map, price_set, text) ==
    LET numeral == Captures(QUERY_NUMERAL, text)
        price == Captures(QUERY_PRICE_language, text)
        captures == IF numeral.ok THEN numeral ELSE price
        roman == translate(map, Group(captures, text, 1))
    IN  IF ~numeral.ok /\ ~price.ok THEN Err("UnrecognizedQuery", text)
        ELSE IF ~roman.ok THEN roman.error
        ELSE OkDecimal(dec_from_u32(u32_from(roman.roman)))

\* Language::query.  QUERY_NUMERAL of language.rs is the pattern of the same
\* name of assistant.rs.
language_query(map, price_set, text) ==
    LET numeral == Captures(QUERY_NUMERAL, text)
        price == Captures(QUERY_PRICE_language, text)
    IN  IF numeral.ok
        THEN LET roman == translate(map, Group(numeral, text, 1))
             IN  IF ~roman.ok THEN roman.error
                 ELSE OkDecimal(dec_from_u32(u32_from(roman.roman)))
        ELSE IF price.ok
        THEN LET roman == translate(map, Group(price, text, 1))
                 count == u32_from(roman.roman)
                 item == Group(price, text, 2)
                 total == dec_mul(count, price_set[item])
             IN  IF ~roman.ok THEN roman.error
                 ELSE IF item \notin DOMAIN price_set
                 THEN Err("UnrecognizedItem", item)
                 ELSE IF ~total.ok THEN Panic("mul")
                 ELSE OkDecimal(total.dec)
        ELSE Err("UnrecognizedQuery", text)

\* Ford { language, known_digits, price_set }
Ford(language, known_digits, price_set) ==
    [language |-> language, known_digits |-> known_digits, price_set |-> price_set]

\* Ford::new
ford_new == Ford(language_new, {}, [i \in {} |-> Dec(<<>>, 0)])

\* Ford::with
ford_with(language, price_set) ==
    Ford(language, language_known_digits(language), price_set)

\* What a call leaves behind: the engine and the value returned.
Outcome(self, result) == [self |-> self, result |-> result]

\* The branch of QUERY_SET_DIGIT with the digit looked up before the word.
set_digit_digit_first(self, query, captures) ==
    LET intergalactic == Group(captures, query, 1)
        roman == Group(captures, query, 2)[1]
    IN  IF roman \in self.known_digits
        THEN Outcome(self, Err("DigitAlreadyExists", <<roman>>))
        ELSE IF language_contains(self.language, intergalactic)
        THEN Outcome(self, Err("WordAlreadyExists", intergalactic))
        ELSE Outcome(Ford(language_insert(self.language, intergalactic, roman),
                          self.known_digits \cup {roman},
                          self.price_set),
                     OkNone)

\* The branch of QUERY_SET_DIGIT without the look-up of the digit.
set_digit_any_digit(self, query, captures) ==
    LET intergalactic == Group(captures, query, 1)
        roman == Group(captures, query, 2)[1]
    IN  IF language_contains(self.language, intergalactic)
        THEN Outcome(self, Err("WordAlreadyExists", intergalactic))
        ELSE Outcome(Ford(language_insert(self.language, intergalactic, roman),
                          self.known_digits \cup {roman},
                          self.price_set),
                     OkNone)

\* The branch of QUERY_SET_DIGIT with the digit marked before the look-ups.
set_digit_marks_first(self, query, captures) ==
    LET intergalactic == Group(captures, query, 1)
        roman == Group(captures, query, 2)[1]
        marked == Ford(self.language, self.known_digits \cup {roman}, self.price_set)
    IN  IF language_contains(self.language, intergalactic)
        THEN Outcome(marked, Err("WordAlreadyExists", intergalactic))
        ELSE IF roman \in self.known_digits
        THEN Outcome(self, Err("DigitAlreadyExists", <<roman>>))
        ELSE Outcome(Ford(language_insert(self.language, intergalactic, roman),
                          self.known_digits \cup {roman},
                          self.price_set),
                     OkNone)

\* Ford::query, the branch of QUERY_SET_DIGIT.
set_digit(self, query, captures) ==
    LET intergalactic == Group(captures, query, 1)
        roman == Group(captures, query, 2)[1]
    IN  IF language_contains(self.language, intergalactic)
        THEN Outcome(self, Err("WordAlreadyExists", intergalactic))
        ELSE IF roman \in self.known_digits
        THEN Outcome(self, Err("DigitAlreadyExists", <<roman>>))
        ELSE Outcome(Ford(language_insert(self.language, intergalactic, roman),
                          self.known_digits \cup {roman},
                          self.price_set),
                     OkNone)

\* The branch of QUERY_SET_ITEM without the look-up of the item: a second
\* definition replaces the price.
set_item_overwrite(self, query, captures) ==
    LET intergalactic == Trim(Group(captures, query, 1))
        roman == translate(self.language, intergalactic)
        count == u32_from(roman.roman)
        item == Trim(Group(captures, query, 2))
        price == dec_from_str_exact(Group(captures, query, 3))
        item_price == dec_div(price.dec, count)
    IN  IF ~roman.ok THEN Outcome(self, roman.error)
        ELSE IF ~price.ok THEN Outcome(self, Panic("unwrap"))
        ELSE IF ~item_price.ok THEN Outcome(self, Panic("div"))
        ELSE Outcome(Ford(self.language,
                          self.known_digits,
                          [i \in DOMAIN self.price_set \cup {item} |->
                              IF i = item THEN item_price.dec ELSE self.price_set[i]]),
                     OkNone)

\* The branch of QUERY_SET_ITEM with the item looked up before the words
\* are translated.
set_item_item_first(self, query, captures) ==
    LET intergalactic == Trim(Group(captures, query, 1))
        roman == translate(self.language, intergalactic)
        count == u32_from(roman.roman)
        item == Trim(Group(captures, query, 2))
        price == dec_from_str_exact(Group(captures, query, 3))
        item_price == dec_div(price.dec, count)
    IN  IF item \in DOMAIN self.price_set
        THEN Outcome(self, Err("ItemAlreadyExists", item))
        ELSE IF ~roman.ok THEN Outcome(self, roman.error)
        ELSE IF ~price.ok THEN Outcome(self, Panic("unwrap"))
        ELSE IF ~item_price.ok THEN Outcome(self, Panic("div"))
        ELSE Outcome(Ford(self.language,
                          self.known_digits,
                          [i \in DOMAIN self.price_set \cup {item} |->
                              IF i = item THEN item_price.dec ELSE self.price_set[i]]),
                     OkNone)

\* Ford::query, the branch of QUERY_SET_ITEM.
set_item(self, query, captures) ==
    LET intergalactic == Trim(Group(captures, query, 1))
        roman == translate(self.language, intergalactic)
        count == u32_from(roman.roman)
        item == Trim(Group(captures, query, 2))
        price == dec_from_str_exact(Group(captures, query, 3))
        item_price == dec_div(price.dec, count)
    IN  IF ~roman.ok THEN Outcome(self, roman.error)
        ELSE IF item \in DOMAIN self.price_set
        THEN Outcome(self, Err("ItemAlreadyExists", item))
        ELSE IF ~price.ok THEN Outcome(self, Panic("unwrap"))
        ELSE IF ~item_price.ok THEN Outcome(self, Panic("div"))
        ELSE Outcome(Ford(self.language,
                          self.known_digits,
                          [i \in DOMAIN self.price_set \cup {item} |->
                              IF i = item THEN item_price.dec ELSE self.price_set[i]]),
                     OkNone)

\* The branch of QUERY_NUMERAL with the dictionary emptied by an answer.
query_numeral_forgets(self, query, captures) ==
    LET intergalactic == Trim(Group(captures, query, 1))
        roman == translate(self.language, intergalactic)
        decimal == u32_from(roman.roman)
    IN  IF ~roman.ok THEN Outcome(self, roman.error)
        ELSE Outcome(Ford(language_new, {}, self.price_set),
                     OkSome(intergalactic \o <<" ", "i", "s", " ">>
                              \o u32_to_string(decimal)))

\* Ford::query, the branch of QUERY_NUMERAL.
query_numeral(self, query, captures) ==
    LET intergalactic == Trim(Group(captures, query, 1))
        roman == translate(self.language, intergalactic)
        decimal == u32_from(roman.roman)
    IN  IF ~roman.ok THEN Outcome(self, roman.error)
        ELSE Outcome(self, OkSome(intergalactic \o <<" ", "i", "s", " ">>
                                    \o u32_to_string(decimal)))

\* The branch of QUERY_PRICE with the total kept as the price of the item.
query_price_stores(self, query, captures) ==
    LET intergalactic == Trim(Group(captures, query, 1))
        roman == translate(self.language, intergalactic)
        count == u32_from(roman.roman)
        item == Trim(Group(captures, query, 2))
        total_price == dec_mul(count, self.price_set[item])
    IN  IF ~roman.ok THEN Outcome(self, roman.error)
        ELSE IF item \notin DOMAIN self.price_set
        THEN Outcome(self, Err("UnrecognizedItem", item))
        ELSE IF ~total_price.ok THEN Outcome(self, Panic("mul"))
        ELSE Outcome(Ford(self.language,
                          self.known_digits,
                          [self.price_set EXCEPT ![item] = total_price.dec]),
                     OkSome(intergalactic \o <<" ">> \o item
                              \o <<" ", "i", "s", " ">>
                              \o dec_to_string(dec_normalize(total_price.dec))
                              \o <<" ", "C", "r", "e", "d", "i", "t", "s">>))

\* Ford::query, the branch of QUERY_PRICE.
query_price(self, query, captures) ==
    LET intergalactic == Trim(Group(captures, query, 1))
        roman == translate(self.language, intergalactic)
        count == u32_from(roman.roman)
        item == Trim(Group(captures, query, 2))
        total_price == dec_mul(count, self.price_set[item])
    IN  IF ~roman.ok THEN Outcome(self, roman.error)
        ELSE IF item \notin DOMAIN self.price_set
        THEN Outcome(self, Err("UnrecognizedItem", item))
        ELSE IF ~total_price.ok THEN Outcome(self, Panic("mul"))
        ELSE Outcome(self, OkSome(intergalactic \o <<" ">> \o item
                                    \o <<" ", "i", "s", " ">>
                                    \o dec_to_string(dec_normalize(total_price.dec))
                                    \o <<" ", "C", "r", "e", "d", "i", "t", "s">>))

\* Ford::query, the last branch.
unrecognized(self, query) == Outcome(self, Err("UnrecognizedQuery", query))

\* The captures of the four patterns on a line.
captures(l) ==
    [digit |-> Captures(QUERY_SET_DIGIT, l),
     item |-> Captures(QUERY_SET_ITEM, l),
     numeral |-> Captures(QUERY_NUMERAL, l),
     price |-> Captures(QUERY_PRICE, l)]

\* Ford::query on a line whose captures are c: the first pattern that matches
\* decides.
dispatch(self, query, c) ==
    IF c.digit.ok THEN set_digit(self, query, c.digit)
    ELSE IF c.item.ok THEN set_item(self, query, c.item)
    ELSE IF c.numeral.ok THEN query_numeral(self, query, c.numeral)
    ELSE IF c.price.ok THEN query_price(self, query, c.price)
    ELSE unrecognized(self, query)

\* Ford::query
ford_query(self, query) == dispatch(self, query, captures(query))

(***************************************************************************)
(* The inputs: the words, items and lines of the crate's tests               *)
(* (tests/simple.rs, the tests of language.rs and assistant.rs), and lines *)
(* built like them.                                                        *)
(***************************************************************************)
glob == <<"g", "l", "o", "b">>

prok == <<"p", "r", "o", "k">>

pish == <<"p", "i", "s", "h">>

tegj == <<"t", "e", "g", "j">>

foo == <<"f", "o", "o">>

bar == <<"b", "a", "r">>

is == <<"i", "s">>

how == <<"h", "o", "w">>

much == <<"m", "u", "c", "h">>

many == <<"m", "a", "n", "y">>

credits == <<"c", "r", "e", "d", "i", "t", "s">>

Credits == <<"C", "r", "e", "d", "i", "t", "s">>

What == <<"W", "h", "a", "t">>

Silver == <<"S", "i", "l", "v", "e", "r">>

Gold == <<"G", "o", "l", "d">>

Iron == <<"I", "r", "o", "n">>

Copper == <<"C", "o", "p", "p", "e", "r">>

RECURSIVE Join(_)
\* The tokens with one space between them.
Join(tokens) ==
    IF tokens = <<>> THEN <<>>
    ELSE IF Len(tokens) = 1 THEN tokens[1]
    ELSE tokens[1] \o <<" ">> \o Join(Tail(tokens))

Num(n) == u32_to_string(n)

\* "<word> is <digit>"
DigitLine(word, digit) == Join(<<word, is, <<digit>> >>)

\* "<words> <Item> is <n> Credits"
ItemLine(words, item, n) == Join(words \o <<item, is, Num(n), Credits>>)

\* "how much is <words> ?"
NumeralLine(words) == Join(<<how, much, is>> \o words \o << <<"?">> >>)

\* "how many Credits is <words> <Item> ?"
PriceLine(words, item) == Join(<<how, many, Credits, is>> \o words \o <<item, <<"?">> >>)

\* "how many credits is <words> <Item>?"
PriceLineTight(words, item) ==
    Join(<<how, many, credits, is>> \o words) \o <<" ">> \o item \o <<"?">>

\* The lines "<word> is <digit>", as <<word, digit>>.
DigitSpecs ==
    {<<glob, "I">>, <<prok, "V">>, <<pish, "X">>, <<tegj, "L">>, <<glob, "V">>, <<prok, "I">>}

\* The lines "<words> <Item> is <n> Credits", as <<words, item, n>>.
ItemSpecs ==
    {<< <<glob, glob>>, Silver, 34>>,
     << <<glob, prok>>, Gold, 57800>>,
     << <<pish, pish>>, Iron, 3910>>,
     << <<glob, glob, glob>>, Silver, 34>>,
     << <<glob, foo>>, Iron, 5>>,
     << <<glob, glob, glob, glob>>, Gold, 8>>}

\* The lines "how much is <words> ?", as <<words>>.  An empty word stands for
\* one more space: before the first word, after the last, or between two.
NumeralSpecs ==
    {<< <<pish, tegj, glob, glob>> >>,
     << <<foo, bar>> >>,
     << << <<>>, pish, tegj, glob, glob, <<>> >> >>,
     << <<pish, <<>>, tegj, glob, glob>> >>}

\* The lines "how many Credits is <words> <Item> ?", as <<words, item>>.
PriceSpecs ==
    {<< <<glob, prok>>, Silver>>, << <<glob, prok>>, Gold>>, << <<glob, prok>>, Iron>>}

\* The lines "how many credits is <words> <Item>?", as <<words, item>>.
PriceTightSpecs ==
    {<< <<glob, prok>>, Iron>>,
     << <<glob, prok>>, Silver>>,
     << <<glob, glob, glob>>, Silver>>,
     << <<glob, glob>>, Copper>>,
     << <<glob, glob, glob, glob>>, Gold>>}

DigitLines == {DigitLine(s[1], s[2]) : s \in DigitSpecs}

ItemLines == {ItemLine(s[1], s[2], s[3]) : s \in ItemSpecs}

NumeralLines == {NumeralLine(s[1]) : s \in NumeralSpecs}

PriceLines ==
    {PriceLine(s[1], s[2]) : s \in PriceSpecs}
        \cup {PriceLineTight(s[1], s[2]) : s \in PriceTightSpecs}

\* "What is pish tegj glob glob?"
OtherLines == {Join(<<What, is, pish, tegj, glob>>) \o <<" ">> \o glob \o <<"?">>}

\* "What is X?"
WhatIsX == Join(<<What, is>>) \o <<" ", "X", "?">>

\* "how much is X ?"
HowMuchIsX == Join(<<how, much, is, <<"X">>, <<"?">> >>)

\* "how many credits is Iron ?"
HowManyCreditsIsIron == Join(<<how, many, credits, is, Iron, <<"?">> >>)

\* "how many credits is glob is Iron ?"
HowManyCreditsIsGlobIsIron == Join(<<how, many, credits, is, glob, is, Iron, <<"?">> >>)

\* "please glob is I"
PleaseGlobIsI == <<"p", "l", "e", "a", "s", "e", " ">> \o DigitLine(glob, "I")

\* " Silver is 34 Credits": a price definition with no words before the item.
NoCountLine == <<" ">> \o ItemLine(<<>>, Silver, 34)

\* Lines in which "<word> is <digit>" is part of a longer text.
EmbeddedLines == {WhatIsX, HowMuchIsX, HowManyCreditsIsIron, HowManyCreditsIsGlobIsIron, PleaseGlobIsI}

\* "glob Gold is 79228162514264337593543950335 Credits": the amount is
\* 2^96 - 1, the largest that Decimal holds.
MaxAmountLine == Join(<<glob, Gold, is, DigitChars(MaxMantissa), Credits>>)

\* "glob Gold is 79228162514264337593543950336 Credits": the amount is 2^96.
OverflowLine == Join(<<glob, Gold, is, DigitChars(AddOne(MaxMantissa)), Credits>>)

\* Price definitions with amounts at the limit of Decimal.
LargeAmountLines == {MaxAmountLine, OverflowLine}

Lines ==
    DigitLines \cup ItemLines \cup NumeralLines \cup PriceLines \cup OtherLines
        \cup EmbeddedLines \cup {NoCountLine} \cup LargeAmountLines

(***************************************************************************)
(* State.                                                                  *)
(***************************************************************************)
VARIABLES
    n,              \* roman.rs: the number whose standard numeral is tried,
                    \* or 0 when any text over the Roman digits is tried
    value,          \* the text given to Roman::try_from
    roman,          \* what Roman::try_from returned
    number,         \* what u32::from(&roman) returned
    pc,             \* how far the conversion of value has come
    map,            \* language.rs: Language.map
    words,          \* the words the phrase is made of
    text,           \* the phrase given to Language::translate
    translation,    \* what Language::translate returned
    answer,         \* what Language::query returned
    compiled,       \* assistant.rs: the four lazy_static patterns, as what
                    \* each of them captures in each of the lines
    self,           \* the Ford
    query,          \* the line given to the last Ford::query
    result          \* what the last Ford::query returned

vars ==
    <<n, value, roman, number, pc, map, words, text, translation, answer,
      compiled, self, query, result>>

romanVars == <<n, value, roman, number, pc>>

languageVars == <<map, words, text, translation, answer>>

fordVars == <<compiled, self, query, result>>

NotRun == [ok |-> FALSE, err |-> "NotRun"]

RomanIdle == n = 0 /\ value = <<>> /\ roman = NotRun /\ number = 0 /\ pc = "idle"

LanguageIdle ==
    map = language_new /\ words = <<>> /\ text = <<>> /\ translation = NotRun /\ answer = NotRun

FordIdle == compiled = <<>> /\ self = ford_new /\ query = <<>> /\ result = NoCall

(***************************************************************************)
(* Roman: a text is parsed, and the numeral it gives is converted.         *)
(***************************************************************************)
InitRoman ==
    /\ n \in 0..3999
    /\ value \in (IF n = 0 THEN RomanTexts ELSE {Standard(n)})
    /\ roman = NotRun
    /\ number = 0
    /\ pc = "start"
    /\ LanguageIdle
    /\ FordIdle

\* Roman::try_from(value)
TryFrom ==
    /\ pc = "start"
    /\ roman' = try_from(value)
    /\ pc' = "parsed"
    /\ UNCHANGED <<n, value, number, languageVars, fordVars>>

\* u32::from(&roman), which only a Roman can be given.
U32From ==
    /\ pc = "parsed"
    /\ roman.ok
    /\ number' = u32_from(roman)
    /\ pc' = "converted"
    /\ UNCHANGED <<n, value, roman, languageVars, fordVars>>

NextRoman == TryFrom \/ U32From

SpecRoman == InitRoman /\ [][NextRoman]_vars

\* C1: for every n in 1..3999 the standard numeral of n is accepted by
\* Roman::try_from and u32::from gives back exactly n; and on every accepted
\* text the pending-digit scan gives the value of the classic system.
C1_ConversionGivesN ==
    /\ (pc # "start" /\ n # 0) => roman.ok
    /\ (pc = "converted" /\ n # 0) => number = n
    /\ pc = "converted" => number = ClassicValue(value)

\* MMMCMIX has been converted to 3909.
C1_Witness ==
    /\ pc = "converted"
    /\ n = 3909
    /\ value = <<"M", "M", "M", "C", "M", "I", "X">>
    /\ number = 3909

\* C2: Roman::try_from succeeds on a text over the Roman digits exactly when
\* the text is not empty and is a string of the canonical grammar, that is,
\* exactly on the standard numerals of 1..3999; every other text, "", "IIII",
\* "MMMM" and "XM" among them, is rejected with InvalidRomanNumeral.
C2_AcceptsExactlyCanonical ==
    pc # "start" =>
        /\ roman.ok <=> (value # <<>> /\ InGrammar(value))
        /\ roman.ok <=> IsStandardNumeral(value)
        /\ n # 0 => roman.ok
        /\ roman.ok => roman.value = value
        /\ ~roman.ok => roman = InvalidRomanNumeral
        /\ value \in {<<>>, <<"I", "I", "I", "I">>, <<"M", "M", "M", "M">>, <<"X", "M">>}
                => roman = InvalidRomanNumeral

\* "XM" has been rejected.
C2_Witness ==
    /\ pc = "parsed"
    /\ value = <<"X", "M">>
    /\ roman = InvalidRomanNumeral

(***************************************************************************)
(* Language: a phrase made of words is translated with a dictionary.       *)
(***************************************************************************)
\* The dictionary of the tests.
TestLanguage == (glob :> "I") @@ (prok :> "V") @@ (pish :> "X") @@ (tegj :> "L")

\* A dictionary of the larger digits.
LargeLanguage == (glob :> "C") @@ (prok :> "D") @@ (pish :> "M") @@ (tegj :> "X")

Dictionaries == {TestLanguage, LargeLanguage}

\* The words of a phrase: the four of the dictionaries, two unknown ones, and
\* the empty word that a doubled or leading space makes.
Vocabulary == {glob, prok, pish, tegj, foo, bar, <<>>}

\* Most words in a phrase.
MaxWords == 4

WordLists == UNION {TextsOfLen(Vocabulary, k) : k \in 1..MaxWords}

InitTranslate ==
    /\ map \in Dictionaries
    /\ words \in WordLists
    /\ text = Join(words)
    /\ translation = NotRun
    /\ answer = NotRun
    /\ RomanIdle
    /\ FordIdle

\* Language::translate(text)
Translate ==
    /\ translation = NotRun
    /\ translation' = translate(map, text)
    /\ UNCHANGED <<map, words, text, answer, romanVars, fordVars>>

NextTranslate == Translate

SpecTranslate == InitTranslate /\ [][NextTranslate]_vars

\* The digits the dictionary gives the words, in the order of the words.
Mapped(m, ws) == [k \in 1..Len(ws) |-> m[ws[k]]]

AllKnown(m, ws) == \A k \in 1..Len(ws) : ws[k] \in DOMAIN m

\* The words are known and their digits make a canonical numeral.
IsNumeral(language, ws) ==
    AllKnown(language, ws) /\ IsStandardNumeral(Mapped(language, ws))

\* The first word of ws that the dictionary does not have.
FirstUnknown(m, ws) ==
    ws[CHOOSE k \in 1..Len(ws) :
            /\ ws[k] \notin DOMAIN m
            /\ \A j \in 1..(k - 1) : ws[j] \in DOMAIN m]

\* C3: when every word of the phrase is in the dictionary and the digits of
\* the words, in the order of the words, make a canonical numeral, then
\* Language::translate returns that numeral.
C3_TranslateKeepsOrder ==
    (translation # NotRun /\ AllKnown(map, words) /\ IsStandardNumeral(Mapped(map, words)))
        => /\ translation.ok
           /\ translation.roman.value = Mapped(map, words)

\* "pish tegj glob glob" has been translated to XLII, which is 42.
C3_Witness ==
    /\ map = TestLanguage
    /\ words = <<pish, tegj, glob, glob>>
    /\ text = Join(<<pish, tegj, glob, glob>>)
    /\ translation # NotRun
    /\ translation.ok
    /\ translation.roman.value = <<"X", "L", "I", "I">>
    /\ u32_from(translation.roman) = 42

\* C4: a phrase with a word that has no mapping gives UnrecognizedWord with
\* the first such word, whatever the digits of the other words make; and
\* InvalidRomanNumeral is given exactly when every word is recognized and the
\* digits do not make a canonical numeral.
C4_TranslateFailsFast ==
    translation # NotRun =>
        /\ ~AllKnown(map, words)
              => translation = [ok |-> FALSE,
                                error |-> Err("UnrecognizedWord", FirstUnknown(map, words))]
        /\ translation = [ok |-> FALSE, error |-> Err("InvalidRomanNumeral", <<>>)]
              <=> (AllKnown(map, words) /\ ~IsStandardNumeral(Mapped(map, words)))

\* "prok prok foo bar": VV is no numeral, foo is the first unknown word.
C4_Witness ==
    /\ map = TestLanguage
    /\ words = <<prok, prok, foo, bar>>
    /\ translation = [ok |-> FALSE, error |-> Err("UnrecognizedWord", foo)]

(***************************************************************************)
(* Language::query: a question is answered with a dictionary and the price *)
(* set of the tests.                                                       *)
(***************************************************************************)
How == <<"H", "o", "w">>

\* The price set of the tests: Gold 10, Silver 5, Iron 1.
TestPrices ==
    (Gold :> Dec(<<1, 0>>, 0)) @@ (Silver :> Dec(<<5>>, 0)) @@ (Iron :> Dec(<<1>>, 0))

\* The items asked for; Copper has no price.
QueryItems == {Gold, Silver, Iron, Copper}

\* Most words in the number of a question.
MaxQueryWords == 3

\* The numbers of the questions: words of the dictionaries and unknown ones.
QueryNumbers == UNION {TextsOfLen(Vocabulary \ {<<>>}, k) : k \in 1..MaxQueryWords}

\* "How much is <number>?"
HowMuch(phrase) == Join(<<How, much, is>> \o phrase) \o <<"?">>

\* "How many credits is <number> <Item>?"
HowMany(phrase, item) == Join(<<How, many, credits, is>> \o phrase \o <<item>>) \o <<"?">>

\* "What is <number>?"
WhatIs(phrase) == Join(<<What, is>> \o phrase) \o <<"?">>

Questions(phrase) ==
    {HowMuch(phrase), WhatIs(phrase)} \cup {HowMany(phrase, item) : item \in QueryItems}

InitQuery ==
    /\ map \in Dictionaries
    /\ words \in QueryNumbers
    /\ text \in Questions(words)
    /\ translation = NotRun
    /\ answer = NotRun
    /\ RomanIdle
    /\ FordIdle

\* Language::query(&price_set, text)
Query ==
    /\ answer = NotRun
    /\ answer' = language_query(map, TestPrices, text)
    /\ UNCHANGED <<map, words, text, translation, romanVars, fordVars>>

NextQuery == Query

SpecQuery == InitQuery /\ [][NextQuery]_vars

\* The error the translation of a number gives, when it gives one.
TranslationError(m, ws) ==
    IF ~AllKnown(m, ws) THEN Err("UnrecognizedWord", FirstUnknown(m, ws))
    ELSE Err("InvalidRomanNumeral", <<>>)

\* C17: Language::query answers "How much is <number>?" with the value of
\* the number, "How many credits is <number> <Item>?" with the value of the
\* number times the price of the item, or UnrecognizedItem when the item has
\* no price, and any other text with UnrecognizedQuery; a number with an
\* unknown word or with digits that make no numeral gives the error of the
\* translation.
C17_LanguageQuery ==
    answer # NotRun =>
        /\ text = WhatIs(words) => answer = Err("UnrecognizedQuery", text)
        /\ (text # WhatIs(words) /\ ~IsNumeral(map, words))
              => answer = TranslationError(map, words)
        /\ (text = HowMuch(words) /\ IsNumeral(map, words))
              => answer = OkDecimal(Dec(NatDigits(ClassicValue(Mapped(map, words))), 0))
        /\ \A item \in QueryItems :
              (text = HowMany(words, item) /\ IsNumeral(map, words))
                  => IF item \in DOMAIN TestPrices
                     THEN answer = OkDecimal(Dec(MulSmall(TestPrices[item].digits,
                                                          ClassicValue(Mapped(map, words))), 0))
                     ELSE answer = Err("UnrecognizedItem", item)

\* "How many credits is pish glob prok Gold?" has been answered 140.
C17_Witness ==
    /\ map = TestLanguage
    /\ text = HowMany(<<pish, glob, prok>>, Gold)
    /\ answer = OkDecimal(Dec(<<1, 4, 0>>, 0))

(***************************************************************************)
(* Ford: one call of Ford::query per step, on any of the lines.            *)
(***************************************************************************)
\* captures, tabulated over a set of lines.
Table(S) == [l \in S |-> captures(l)]

\* A panic ends the program: no call follows it.
Running == result.kind # "Panic"

Return(line, outcome) ==
    /\ self' = outcome.self
    /\ query' = line
    /\ result' = outcome.result
    /\ UNCHANGED <<romanVars, languageVars, compiled>>

SetDigit(line) ==
    /\ Running
    /\ compiled[line].digit.ok
    /\ Return(line, set_digit(self, line, compiled[line].digit))

SetItem(line) ==
    /\ Running
    /\ ~compiled[line].digit.ok
    /\ compiled[line].item.ok
    /\ Return(line, set_item(self, line, compiled[line].item))

QueryNumeral(line) ==
    /\ Running
    /\ ~compiled[line].digit.ok
    /\ ~compiled[line].item.ok
    /\ compiled[line].numeral.ok
    /\ Return(line, query_numeral(self, line, compiled[line].numeral))

QueryPrice(line) ==
    /\ Running
    /\ ~compiled[line].digit.ok
    /\ ~compiled[line].item.ok
    /\ ~compiled[line].numeral.ok
    /\ compiled[line].price.ok
    /\ Return(line, query_price(self, line, compiled[line].price))

Unrecognized(line) ==
    /\ Running
    /\ ~compiled[line].digit.ok
    /\ ~compiled[line].item.ok
    /\ ~compiled[line].numeral.ok
    /\ ~compiled[line].price.ok
    /\ Return(line, unrecognized(self, line))

Init ==
    /\ RomanIdle
    /\ LanguageIdle
    /\ compiled = Table(Lines)
    /\ self = ford_new
    /\ query = <<>>
    /\ result = NoCall

Next ==
    \E line \in Lines :
        \/ SetDigit(line)
        \/ SetItem(line)
        \/ QueryNumeral(line)
        \/ QueryPrice(line)
        \/ Unrecognized(line)

Spec == Init /\ [][Next]_vars

(***************************************************************************)
(* Claims about Ford.  A step of Spec is one call of Ford::query: query' is *)
(* the line given, self the engine before the call, self' the engine and   *)
(* result' the value returned after it.                                    *)
(***************************************************************************)
\* Some word of the dictionary has the digit.
DigitTaken(language, digit) == \E w \in DOMAIN language : language[w] = digit

\* C5: a line "<word> is <digit>" whose word is already in the dictionary
\* fails with WordAlreadyExists(word), also when the digit is taken as well;
\* one whose word is new and whose digit is taken fails with
\* DigitAlreadyExists(digit).
C5_DefineDigitConflicts ==
    [][\A s \in DigitSpecs :
          query' = DigitLine(s[1], s[2]) =>
              /\ s[1] \in DOMAIN self.language
                    => result' = Err("WordAlreadyExists", s[1])
              /\ (s[1] \notin DOMAIN self.language /\ DigitTaken(self.language, s[2]))
                    => result' = Err("DigitAlreadyExists", <<s[2]>>)]_vars

\* "glob is V" has failed on the word, with V taken as well.
C5_Witness ==
    /\ query = DigitLine(glob, "V")
    /\ result = Err("WordAlreadyExists", glob)
    /\ glob \in DOMAIN self.language
    /\ DigitTaken(self.language, "V")

\* C6: no two words of the dictionary have the same digit, and known_digits
\* is exactly the set of the digits the dictionary maps to.
C6_DigitsUniqueAndMirrored ==
    /\ \A w1, w2 \in DOMAIN self.language :
          self.language[w1] = self.language[w2] => w1 = w2
    /\ self.known_digits = {self.language[w] : w \in DOMAIN self.language}

\* Four words have been defined.
C6_Witness ==
    /\ DOMAIN self.language = {glob, prok, pish, tegj}
    /\ self.known_digits = {"I", "V", "X", "L"}

\* C7: a call that returns an error leaves the engine as it was.
C7_ErrorsChangeNothing == [][result'.kind = "Err" => self' = self]_vars

\* A definition has failed in an engine with words and prices.
C7_Witness ==
    /\ result = Err("ItemAlreadyExists", Silver)
    /\ DOMAIN self.language # {}
    /\ DOMAIN self.price_set # {}

\* C8: a line "<words> <Item> is <n> Credits" for an item that has a price,
\* with words that make a numeral, fails with ItemAlreadyExists(item) and
\* leaves the price of the item as it was.
C8_NoRepricing ==
    [][\A s \in ItemSpecs :
          (/\ query' = ItemLine(s[1], s[2], s[3])
           /\ s[2] \in DOMAIN self.price_set
           /\ AllKnown(self.language, s[1])
           /\ IsStandardNumeral(Mapped(self.language, s[1])))
              => /\ result' = Err("ItemAlreadyExists", s[2])
                 /\ s[2] \in DOMAIN self'.price_set
                 /\ self'.price_set[s[2]] = self.price_set[s[2]]]_vars

\* "glob glob glob Silver is 34 Credits" has failed; Silver still costs 17.
C8_Witness ==
    /\ query = ItemLine(<<glob, glob, glob>>, Silver, 34)
    /\ result = Err("ItemAlreadyExists", Silver)
    /\ Silver \in DOMAIN self.price_set
    /\ self.price_set[Silver] = Dec(<<1, 7>>, 0)

RECURSIVE Fraction(_, _, _)
\* The digits after the point of r / den, r < den, when there are at most k
\* of them.
Fraction(r, den, k) ==
    IF r = 0 THEN [ok |-> TRUE, ds |-> <<>>]
    ELSE IF k = 0 THEN [ok |-> FALSE]
    ELSE LET rest == Fraction((r * 10) % den, den, k - 1)
         IN  IF rest.ok THEN [ok |-> TRUE, ds |-> <<(r * 10) \div den>> \o rest.ds]
             ELSE rest

\* The quotient num / den written out in full, without trailing zeros and
\* without a point when it is whole; <<"?">> when its digits never end (a
\* quotient by a number up to 3999 that ends has at most 11 digits after the
\* point).
ExactText(num, den) ==
    LET d == DivSmall(num, den)
        f == Fraction(d.r, den, 28)
    IN  IF ~f.ok THEN <<"?">>
        ELSE (IF d.q = <<>> THEN <<"0">> ELSE DigitChars(d.q))
                \o (IF f.ds = <<>> THEN <<>> ELSE <<".">> \o DigitChars(f.ds))

\* The value the dictionary and the classic system give a phrase.
PhraseValue(language, ws) == ClassicValue(Mapped(language, ws))

\* The price queries of the lines, as <<words, item, line>>.
PriceQueries ==
    {<<s[1], s[2], PriceLine(s[1], s[2])>> : s \in PriceSpecs}
        \cup {<<s[1], s[2], PriceLineTight(s[1], s[2])>> : s \in PriceTightSpecs}

\* "<words> <Item> is <total> Credits"
PriceReply(ws, item, total) ==
    Join(ws) \o <<" ">> \o item \o <<" ", "i", "s", " ">> \o total
        \o <<" ", "C", "r", "e", "d", "i", "t", "s">>

\* C9: after a successful "<w1> <Item> is <N> credits" the unit price stored
\* for Item is N / value(w1), and "how many credits is <w2> <Item>?" is then
\* answered "<w2> <Item> is <T> Credits" with T = value(w2) x N / value(w1),
\* written without trailing zeros.
C9_TotalIsExact ==
    [][\A s \in ItemSpecs :
          (query' = ItemLine(s[1], s[2], s[3]) /\ result' = OkNone)
              => /\ s[2] \in DOMAIN self'.price_set
                 /\ MulSmall(self'.price_set[s[2]].digits, PhraseValue(self.language, s[1]))
                        = NatDigits(s[3]) \o Zeros(self'.price_set[s[2]].scale)
                 /\ \A q \in PriceQueries :
                        (q[2] = s[2] /\ IsNumeral(self'.language, q[1]))
                            => dispatch(self', q[3], compiled[q[3]]).result
                                  = OkSome(PriceReply(q[1], q[2],
                                        ExactText(MulSmall(NatDigits(s[3]),
                                                           PhraseValue(self'.language, q[1])),
                                                  PhraseValue(self.language, s[1]))))]_vars

\* The engines the lines of C10 lead through.
C10_Words1 == glob :> "I"

C10_Words2 == C10_Words1 @@ (prok :> "V")

C10_Words3 == C10_Words2 @@ (pish :> "X")

C10_Words4 == C10_Words3 @@ (tegj :> "L")

C10_Reply == OkSome(Join(<<glob, prok, Iron, is, <<"7", "8", "2">>, Credits>>))

\* C10: from Ford::new(), "glob is I", "prok is V", "pish is X", "tegj is L"
\* and "pish pish Iron is 3910 Credits" each return None, and then
\* "how many credits is glob prok Iron?" returns "glob prok Iron is 782 Credits".
C10_EndToEnd ==
    [][/\ (self = ford_new /\ query' = DigitLine(glob, "I"))
            => (result' = OkNone /\ self' = Ford(C10_Words1, {"I"}, <<>>))
       /\ (self = Ford(C10_Words1, {"I"}, <<>>) /\ query' = DigitLine(prok, "V"))
            => (result' = OkNone /\ self' = Ford(C10_Words2, {"I", "V"}, <<>>))
       /\ (self = Ford(C10_Words2, {"I", "V"}, <<>>) /\ query' = DigitLine(pish, "X"))
            => (result' = OkNone /\ self' = Ford(C10_Words3, {"I", "V", "X"}, <<>>))
       /\ (self = Ford(C10_Words3, {"I", "V", "X"}, <<>>) /\ query' = DigitLine(tegj, "L"))
            => (result' = OkNone /\ self' = Ford(C10_Words4, {"I", "V", "X", "L"}, <<>>))
       /\ (/\ self = Ford(C10_Words4, {"I", "V", "X", "L"}, <<>>)
           /\ query' = ItemLine(<<pish, pish>>, Iron, 3910))
            => (/\ result' = OkNone
                /\ self' = Ford(C10_Words4, {"I", "V", "X", "L"}, Iron :> Dec(<<1, 9, 5, 5>>, 1)))
       /\ (/\ self = Ford(C10_Words4, {"I", "V", "X", "L"}, Iron :> Dec(<<1, 9, 5, 5>>, 1))
           /\ query' = PriceLineTight(<<glob, prok>>, Iron))
            => (result' = C10_Reply /\ self' = self)]_vars

\* The last line of C10 has been answered.
C10_Witness ==
    /\ self = Ford(C10_Words4, {"I", "V", "X", "L"}, Iron :> Dec(<<1, 9, 5, 5>>, 1))
    /\ query = PriceLineTight(<<glob, prok>>, Iron)
    /\ result = C10_Reply
\* "glob prok Silver is <total> Credits"
C11_Reply(total) == OkSome(Join(<<glob, prok, Silver, is, total, Credits>>))

\* C11 as stated: with glob = I and prok = V, "glob glob Silver is 34 Credits"
\* stores the unit price 17, and "how many credits is glob prok Silver?" is
\* then evaluated with count 6 and answered "glob prok Silver is 102 Credits".
C11_CountSix ==
    [][(glob \in DOMAIN self.language /\ prok \in DOMAIN self.language
            /\ self.language[glob] = "I" /\ self.language[prok] = "V")
        => /\ (query' = ItemLine(<<glob, glob>>, Silver, 34) /\ result' = OkNone)
                => self'.price_set[Silver] = Dec(<<1, 7>>, 0)
           /\ (/\ Silver \in DOMAIN self.price_set
               /\ self.price_set[Silver] = Dec(<<1, 7>>, 0)
               /\ query' = PriceLineTight(<<glob, prok>>, Silver))
                => /\ u32_from(translate(self.language, Join(<<glob, prok>>)).roman) = 6
                   /\ result' = C11_Reply(<<"1", "0", "2">>)]_vars

\* C11, amended: with glob = I and prok = V, "glob glob Silver is 34 Credits"
\* stores the unit price 17, and "how many credits is glob prok Silver?" is
\* then evaluated with count 4 (glob prok is IV) and answered
\* "glob prok Silver is 68 Credits".
C11_CountFour ==
    [][(glob \in DOMAIN self.language /\ prok \in DOMAIN self.language
            /\ self.language[glob] = "I" /\ self.language[prok] = "V")
        => /\ (query' = ItemLine(<<glob, glob>>, Silver, 34) /\ result' = OkNone)
                => self'.price_set[Silver] = Dec(<<1, 7>>, 0)
           /\ (/\ Silver \in DOMAIN self.price_set
               /\ self.price_set[Silver] = Dec(<<1, 7>>, 0)
               /\ query' = PriceLineTight(<<glob, prok>>, Silver))
                => /\ u32_from(translate(self.language, Join(<<glob, prok>>)).roman) = 4
                   /\ result' = C11_Reply(<<"6", "8">>)]_vars

\* "how many credits is glob prok Silver?" has been answered with Silver at 17.
C11_Witness ==
    /\ glob \in DOMAIN self.language /\ self.language[glob] = "I"
    /\ prok \in DOMAIN self.language /\ self.language[prok] = "V"
    /\ Silver \in DOMAIN self.price_set
    /\ self.price_set[Silver] = Dec(<<1, 7>>, 0)
    /\ query = PriceLineTight(<<glob, prok>>, Silver)
    /\ result = C11_Reply(<<"6", "8">>)

\* C12: when "how much is <words> ?" is asked again right after it was
\* asked, the second call returns what the first returned, the same reply or
\* the same error.
C12_SameQuestionSameAnswer ==
    [][\A s \in NumeralSpecs :
          (query = NumeralLine(s[1]) /\ query' = query) => result' = result]_vars

\* "how much is pish tegj glob glob ?" has been answered, and can be asked
\* again.
C12_Witness ==
    /\ query = NumeralLine(<<pish, tegj, glob, glob>>)
    /\ result = OkSome(Join(<<pish, tegj, glob, glob, is, <<"4", "2">> >>))
    /\ compiled[query].numeral.ok

\* C13: a line that QUERY_NUMERAL or QUERY_PRICE matches ("how much is
\* <words> ?", "how many credits is <words> <Item> ?") is a pure read: the
\* dictionary, the digit set and the price book are after the call what they
\* were before it, whether the call succeeds or fails.
C13_QueriesOnlyRead ==
    [][(query' \in DOMAIN compiled
            /\ (compiled[query'].numeral.ok \/ compiled[query'].price.ok))
        => self' = self]_vars

\* The lines that are questions with "What is" and so have none of the four
\* forms.
WhatLines == OtherLines \cup {WhatIsX}

\* C14: a line with none of the four forms returns UnrecognizedQuery with
\* the text of the line, and leaves the engine as it was.
C14_OtherLinesAreUnrecognized ==
    [][query' \in WhatLines
        => (result' = Err("UnrecognizedQuery", query') /\ self' = self)]_vars

\* C15: a line in which "<word> is <digit>" is only a part of the text (more
\* text follows the digit, or other tokens come before the word) adds no
\* entry to the dictionary.
C15_OnlyWholeLinesDefine ==
    [][query' \in EmbeddedLines => self'.language = self.language]_vars

\* C16: a line handled as a price definition never divides by zero: when
\* the words before the item are empty or are no numeral the call returns an
\* error and the engine is as before, and when a price is stored the count
\* it was divided by is at least 1.
C16_CountIsPositive ==
    [][(query' \in DOMAIN compiled
            /\ ~compiled[query'].digit.ok /\ compiled[query'].item.ok)
        => LET phrase == Trim(Group(compiled[query'].item, query', 1))
               translated == translate(self.language, phrase)
           IN  /\ result' # Panic("div")
               /\ (phrase = <<>> \/ ~translated.ok)
                    => (result'.kind = "Err" /\ self' = self)
               /\ result' = OkNone
                    => (translated.ok /\ u32_from(translated.roman) >= 1)]_vars

\* " Silver is 34 Credits", with no words before the item, has failed in an
\* engine that has words.
C16_Witness ==
    /\ query = NoCountLine
    /\ result = Err("UnrecognizedWord", <<>>)
    /\ glob \in DOMAIN self.language
    /\ Silver \notin DOMAIN self.price_set

\* The dictionary after is the dictionary before and one new word.
OneWordMore(before, after) ==
    \E w \in DOMAIN after.language \ DOMAIN before.language :
        /\ DOMAIN after.language = DOMAIN before.language \cup {w}
        /\ \A v \in DOMAIN before.language : after.language[v] = before.language[v]
        /\ after.language[w] \notin before.known_digits
        /\ after.known_digits = before.known_digits \cup {after.language[w]}
        /\ after.price_set = before.price_set

\* The price book after is the price book before and one new item.
OneItemMore(before, after) ==
    \E i \in DOMAIN after.price_set \ DOMAIN before.price_set :
        /\ DOMAIN after.price_set = DOMAIN before.price_set \cup {i}
        /\ \A j \in DOMAIN before.price_set : after.price_set[j] = before.price_set[j]
        /\ after.language = before.language
        /\ after.known_digits = before.known_digits

\* C18: a call that returns Some(text) changes nothing, and a call that
\* returns None changes one thing: "<word> is <digit>" adds that word with
\* that digit and marks the digit, with the price book as before; "<words>
\* <Item> is <n> Credits" adds a price for that item, with the dictionary and
\* the digit set as before.
C18_OneMutationOrNone ==
    [][/\ result'.kind = "Some" => self' = self
       /\ result' = OkNone => (OneWordMore(self, self') \/ OneItemMore(self, self'))
       /\ \A s \in DigitSpecs :
              (query' = DigitLine(s[1], s[2]) /\ result' = OkNone)
                  => /\ OneWordMore(self, self')
                     /\ s[1] \notin DOMAIN self.language
                     /\ s[1] \in DOMAIN self'.language
                     /\ self'.language[s[1]] = s[2]
       /\ \A s \in ItemSpecs :
              (query' = ItemLine(s[1], s[2], s[3]) /\ result' = OkNone)
                  => /\ OneItemMore(self, self')
                     /\ s[2] \notin DOMAIN self.price_set
                     /\ s[2] \in DOMAIN self'.price_set]_vars

\* "glob prok Gold is 57800 Credits" has stored 14450 for Gold.
C18_Witness ==
    /\ query = ItemLine(<<glob, prok>>, Gold, 57800)
    /\ result = OkNone
    /\ Gold \in DOMAIN self.price_set
    /\ self.price_set[Gold] = Dec(<<1, 4, 4, 5, 0>>, 0)

\* C19: every word of the dictionary keeps its digit and every item of the
\* price book keeps its price through every call; none is removed.
C19_OnlyGrows ==
    [][/\ \A w \in DOMAIN self.language :
              w \in DOMAIN self'.language /\ self'.language[w] = self.language[w]
       /\ \A i \in DOMAIN self.price_set :
              i \in DOMAIN self'.price_set /\ self'.price_set[i] = self.price_set[i]]_vars

\* The four words and the three items are defined, and a further definition
\* of a digit has been refused.
C19_Witness ==
    /\ {glob, prok, pish, tegj} \subseteq DOMAIN self.language
    /\ DOMAIN self.price_set = {Silver, Gold, Iron}
    /\ query = DigitLine(prok, "I")
    /\ result.kind = "Err"

\* C20: in "<words> <Item> is <n> Credits" and in "how many credits is
\* <words> <Item> ?" the words are translated before the item is looked up:
\* words that are no numeral give the error of the translation whether or
\* not the item has a price, and ItemAlreadyExists and UnrecognizedItem are
\* returned only for words that are a numeral.
C20_TranslationComesFirst ==
    [][/\ \A s \in ItemSpecs :
              query' = ItemLine(s[1], s[2], s[3])
                  => /\ ~IsNumeral(self.language, s[1])
                          => result' = TranslationError(self.language, s[1])
                     /\ (result'.kind = "Err" /\ result'.err = "ItemAlreadyExists")
                          => IsNumeral(self.language, s[1])
       /\ \A q \in PriceQueries :
              query' = q[3]
                  => /\ ~IsNumeral(self.language, q[1])
                          => result' = TranslationError(self.language, q[1])
                     /\ (result'.kind = "Err" /\ result'.err = "UnrecognizedItem")
                          => IsNumeral(self.language, q[1])]_vars

\* "glob foo Iron is 5 Credits" has failed on foo although Iron has a price.
C20_Witness ==
    /\ query = ItemLine(<<glob, foo>>, Iron, 5)
    /\ result = Err("UnrecognizedWord", foo)
    /\ Iron \in DOMAIN self.price_set

\* The words of a phrase, without the empty ones that more spaces make.
WordsOf(ws) == LET IsWord(w) == w # <<>> IN SelectSeq(ws, IsWord)

\* C21: the answer to "how much is <words> ?" depends only on the words and
\* their order: with more whitespace before the first word, after the last
\* word or between two words, a question whose words are defined and make a
\* canonical numeral is answered as it is with single spaces.
C21_WhitespaceDoesNotMatter ==
    [][\A s \in NumeralSpecs :
          (/\ query' = NumeralLine(s[1])
           /\ IsNumeral(self.language, WordsOf(s[1])))
              => result' = dispatch(self, NumeralLine(WordsOf(s[1])),
                                    compiled[NumeralLine(WordsOf(s[1]))]).result]_vars

\* C22: right after a successful "<w> <Item> is <N> Credits", the question
\* "how many credits is <w> <Item> ?" with the same words is answered
\* "<w> <Item> is <N> Credits", with the N of the definition, whether or not
\* the value of the words divides N.
C22_SamePhraseSameTotal ==
    [][\A s \in ItemSpecs : \A q \in PriceQueries :
          (/\ q[1] = s[1] /\ q[2] = s[2]
           /\ query = ItemLine(s[1], s[2], s[3]) /\ result = OkNone
           /\ query' = q[3])
              => result' = OkSome(PriceReply(s[1], s[2], Num(s[3])))]_vars

\* C23: Ford::query always returns: Ok(None), Ok(Some(text)) or an error of
\* QueryError.  No call aborts, neither in reading the amount of a price
\* definition, nor in dividing it by the count, nor in multiplying a price
\* by a count.
C23_QueryAlwaysReturns == result.kind \in {"NoCall", "None", "Some", "Err"}
====
